---------------------------- MODULE Spec2Model ----------------------------
(* A model of the treeish crate: src/src/parse.rs (the expression parser)   *)
(* and src/src/lib.rs (the partition rule validator, the Treeish value, its *)
(* predicates and the walk adapter).                                        *)
(*                                                                          *)
(* Text is a sequence of one-character strings.  The glob engine (wax) is   *)
(* an external collaborator; it is modelled on a four-character alphabet:   *)
(*   "a"  a literal character                                               *)
(*   "/"  the component separator                                           *)
(*   "?"  the exactly-one wildcard (a variant token)                        *)
(*   ":"  a reserved character: a glob holding it does not compile          *)
EXTENDS Naturals, Sequences, FiniteSets

VARIABLES
    expression,   \* the text last handed to Treeish::new (<<>> otherwise)
    via,          \* which constructor ran last: "none", "new", "glob", "path"
    partitioned,  \* what reached the rule validator (or the parser's error)
    outcome,      \* the constructor's Result: the Treeish or the BuildError
    split,        \* the (path, glob) pair the separator alternative matched
    calls,        \* the calls made into the traversal engine, oldest first
    requested,    \* the WalkBehavior the caller last asked a walk with
    answer        \* the last predicate asked of the Treeish and its result

vars == <<expression, via, partitioned, outcome, split, calls, requested, answer>>

\* ------------------------------------------------------------------ bounds

MaxLen == 4
MaxCalls == 2

Alphabet == {"a", "/", "?", ":"}

Text == UNION {[1..n -> Alphabet] : n \in 0..MaxLen}

\* WalkBehavior is opaque: the default bundle and one other
WalkBehavior_default == "default"

Behaviors == {WalkBehavior_default, "custom"}

\* ---------------------------------------------------------- text helpers

StartsWith(s, t) == Len(s) >= Len(t) /\ SubSeq(s, 1, Len(t)) = t

DropFirst(s, n) == SubSeq(s, n + 1, Len(s))

\* the positions at which t occurs in s
Occurrences(s, t) == {i \in 1..Len(s) : StartsWith(DropFirst(s, i - 1), t)}

Least(S) == CHOOSE i \in S : \A j \in S : i <= j

Greatest(S) == CHOOSE i \in S : \A j \in S : j <= i

Separator == <<":", ":">>

\* ------------------------------------------------- the glob engine (wax)

\* Glob::new: a glob compiles unless it holds a reserved character or two
\* adjacent component boundaries; a compiled glob is kept as its expression
Glob_new(text) ==
    IF \/ \E i \in 1..Len(text) : text[i] = ":"
       \/ \E i \in 1..(Len(text) - 1) : text[i] = "/" /\ text[i + 1] = "/"
    THEN [ok |-> FALSE]
    ELSE [ok |-> TRUE, glob |-> text]

\* the globs the engine can build from the texts of the model
Globs == {t \in Text : Glob_new(t).ok}

\* Glob::has_root: the first token is a rooting separator
has_root(glob) == Len(glob) > 0 /\ glob[1] = "/"

\* the components of an invariant prefix joined by the separator: a trailing
\* separator is not part of the path, a lone root is
JoinComponents(s) ==
    IF Len(s) > 1 /\ s[Len(s)] = "/" THEN SubSeq(s, 1, Len(s) - 1) ELSE s

\* Glob::partition: the literal (invariant) leading components as a path and
\* the rest as a glob; the prefix ends at the last separator before the first
\* variant token, or spans the whole glob when no token is variant
partition(glob) ==
    LET variants == {i \in 1..Len(glob) : glob[i] = "?"}
    IN  IF variants = {}
        THEN <<JoinComponents(glob), <<>>>>
        ELSE LET v    == Least(variants)
                 seps == {i \in 1..(v - 1) : glob[i] = "/"}
                 n    == IF seps = {} THEN 0 ELSE Greatest(seps)
             IN  <<JoinComponents(SubSeq(glob, 1, n)), DropFirst(glob, n)>>

\* ------------------------------------------------------ Empty (lib.rs)

\* Empty::is_empty for Glob (its expression is empty) and for Path (its
\* OsStr is empty)
is_empty(x) == Len(x) = 0

None == [some |-> FALSE]

Some(x) == [some |-> TRUE, value |-> x]

\* Empty::non_empty
non_empty(x) == IF is_empty(x) THEN None ELSE Some(x)

\* --------------------------------------------------- Partitioned (parse.rs)

PartPath(p) == [variant |-> "Path", path |-> p]

PartGlob(g) == [variant |-> "Glob", glob |-> g]

PartGlobIn(p, g) == [variant |-> "GlobIn", path |-> p, glob |-> g]

\* ------------------------------------------------------- BuildError (lib.rs)

Ok(v) == [tag |-> "Ok", value |-> v]

Err(kind) == [tag |-> "Err", kind |-> kind]

\* unreachable!() was executed: the call does not return
Panic == [tag |-> "Panic"]

\* ------------------------------------------------- nom combinators (parse.rs)

Fail == [ok |-> FALSE]

Done(rest, out) == [ok |-> TRUE, rest |-> rest, out |-> out]

\* take_until splitting at the last occurrence of t instead of the first
take_until_last(t, input) ==
    LET occ == Occurrences(input, t)
    IN  IF occ = {} THEN Fail
        ELSE Done(DropFirst(input, Greatest(occ) - 1),
                  SubSeq(input, 1, Greatest(occ) - 1))

\* bytes::take_until: everything before the first occurrence of t, which is
\* left in the input; an error when t does not occur
take_until(t, input) ==
    LET occ == Occurrences(input, t)
    IN  IF occ = {} THEN Fail
        ELSE Done(DropFirst(input, Least(occ) - 1), SubSeq(input, 1, Least(occ) - 1))

\* bytes::tag
tag(t, input) ==
    IF StartsWith(input, t) THEN Done(DropFirst(input, Len(t)), t) ELSE Fail

\* rest consuming nothing
rest_none(input) == Done(input, <<>>)

\* combinator::rest: the whole remaining input
rest(input) == Done(<<>>, input)

\* sequence::separated_pair(take_until("::"), tag("::"), rest)
separated_pair(input) ==
    LET first == take_until(Separator, input)
    IN  IF ~first.ok THEN Fail
        ELSE LET sep == tag(Separator, first.rest)
             IN  IF ~sep.ok THEN Fail
                 ELSE LET second == rest(sep.rest)
                      IN  IF ~second.ok THEN Fail
                          ELSE Done(second.rest, <<first.out, second.out>>)

\* the first alternative falling back to a literal path when the glob after
\* the separator does not compile
separator_map_fallback(path, glob) ==
    LET g == Glob_new(glob)
    IN  IF ~g.ok THEN Ok(Some(PartPath(path \o Separator \o glob)))
        ELSE Ok(Some(IF non_empty(path).some
                     THEN PartGlobIn(path, g.glob)
                     ELSE PartGlob(g.glob)))

\* the closure of the first alternative: path :: glob
separator_map(path, glob) ==
    LET g == Glob_new(glob)
    IN  IF ~g.ok THEN Err("Glob")
        ELSE Ok(Some(IF non_empty(path).some
                     THEN PartGlobIn(path, g.glob)
                     ELSE PartGlob(g.glob)))

\* the recombination with the Glob and Path arms exchanged
recombine_swapped(path, glob) ==
    CASE non_empty(path).some /\ non_empty(glob).some -> PartGlobIn(path, glob)
      [] ~non_empty(path).some /\ non_empty(glob).some -> PartPath(glob)
      [] non_empty(path).some /\ ~non_empty(glob).some -> PartGlob(path)
      [] OTHER -> [variant |-> "unreachable"]

\* the recombination of a partitioned glob by presence (parse.rs 73-78)
recombine(path, glob) ==
    CASE non_empty(path).some /\ non_empty(glob).some -> PartGlobIn(path, glob)
      [] ~non_empty(path).some /\ non_empty(glob).some -> PartGlob(glob)
      [] non_empty(path).some /\ ~non_empty(glob).some -> PartPath(path)
      [] OTHER -> [variant |-> "unreachable"]

\* the second alternative reporting the compilation failure
literal_fallback_err(expr) == Err("Glob")

\* the literal fallback of the second alternative (parse.rs 81-85)
literal_fallback(expr) ==
    IF non_empty(expr).some THEN Ok(Some(PartPath(expr))) ELSE Ok(None)

\* the closure of the second alternative: the whole expression
rest_map(expr) ==
    LET g == Glob_new(expr)
    IN  IF g.ok
        THEN IF non_empty(g.glob).some
             THEN LET r == recombine(partition(g.glob)[1], partition(g.glob)[2])
                  IN  IF r.variant = "unreachable" THEN Panic ELSE Ok(Some(r))
             ELSE Ok(None)
        ELSE literal_fallback(expr)

\* branch::alt of the two mapped alternatives
alt(input) ==
    LET first == separated_pair(input)
    IN  IF first.ok
        THEN Done(first.rest, separator_map(first.out[1], first.out[2]))
        ELSE LET second == rest(input)
             IN  IF second.ok THEN Done(second.rest, rest_map(second.out))
                 ELSE Fail

\* combinator::all_consuming
all_consuming(input) ==
    LET r == alt(input)
    IN  IF r.ok /\ r.rest = <<>> THEN r ELSE Fail

\* parse::parse
parse(expr) ==
    LET r == all_consuming(expr)
    IN  IF r.ok THEN r.out ELSE Err("Parse")

\* ------------------------------------------------------- Treeish (lib.rs)

TreeishPath(p) == [variant |-> "Path", path |-> p]

TreeishGlob(g) == [variant |-> "Glob", glob |-> g]

TreeishGlobIn(p, g) == [variant |-> "GlobIn", tree |-> p, glob |-> g]

\* Treeish::empty
empty == TreeishPath(<<>>)

\* the GlobIn arm without the has_root check
validate_glob_in_unchecked(path, glob) == Ok(TreeishGlobIn(path, glob))

\* the GlobIn arm of the rule validator
validate_glob_in(path, glob) ==
    IF has_root(glob) THEN Err("Rule") ELSE Ok(TreeishGlobIn(path, glob))

\* impl TryFrom<Option<Partitioned>> for Treeish
try_from_partitioned(p) ==
    IF p.some
    THEN CASE p.value.variant = "Path" -> Ok(TreeishPath(p.value.path))
           [] p.value.variant = "Glob" -> Ok(TreeishGlob(p.value.glob))
           [] p.value.variant = "GlobIn" ->
                  validate_glob_in(p.value.path, p.value.glob)
    ELSE Ok(empty)

\* the Option<Partitioned> built by impl TryFrom<Glob> for Treeish
glob_partitioned(glob) ==
    LET path == partition(glob)[1]
        g    == partition(glob)[2]
    IN  CASE non_empty(path).some /\ ~non_empty(g).some -> Some(PartPath(path))
          [] ~non_empty(path).some /\ non_empty(g).some -> Some(PartGlob(g))
          [] non_empty(path).some /\ non_empty(g).some -> Some(PartGlobIn(path, g))
          [] OTHER -> None

\* Treeish::has_path
has_path(t) == t.variant = "Path"

\* Treeish::has_glob
has_glob(t) == t.variant \in {"Glob", "GlobIn"}

\* walk_with_behavior walking GlobIn from the default root with the default
\* behavior
walk_call_default(t, behavior) ==
    CASE t.variant = "Path" ->
             [glob |-> Glob_new(<<>>).glob, root |-> t.path, behavior |-> behavior]
      [] t.variant = "Glob" ->
             [glob |-> t.glob, root |-> <<".">>, behavior |-> behavior]
      [] t.variant = "GlobIn" ->
             [glob |-> t.glob, root |-> <<".">>, behavior |-> WalkBehavior_default]

\* the call Treeish::walk_with_behavior makes into the traversal engine
walk_call(t, behavior) ==
    CASE t.variant = "Path" ->
             [glob |-> Glob_new(<<>>).glob, root |-> t.path, behavior |-> behavior]
      [] t.variant = "Glob" ->
             [glob |-> t.glob, root |-> <<".">>, behavior |-> behavior]
      [] t.variant = "GlobIn" ->
             [glob |-> t.glob, root |-> t.tree, behavior |-> behavior]

\* ------------------------------------------------------------ the machine

NoAnswer == [op |-> "none", value |-> FALSE]

Init ==
    /\ expression = <<>>
    /\ via = "none"
    /\ partitioned = [tag |-> "None"]
    /\ outcome = [tag |-> "None"]
    /\ split = None
    /\ calls = <<>>
    /\ requested = WalkBehavior_default
    /\ answer = NoAnswer

Built == outcome.tag = "Ok"

\* Treeish::new(expression)
New ==
    \E e \in Text :
        LET p == parse(e)
        IN  /\ via = "none"
            /\ expression' = e
            /\ via' = "new"
            /\ partitioned' = p
            /\ outcome' = IF p.tag = "Ok" THEN try_from_partitioned(p.value) ELSE p
            /\ split' = IF separated_pair(e).ok
                        THEN Some(separated_pair(e).out) ELSE None
            /\ calls' = <<>>
            /\ requested' = WalkBehavior_default
            /\ answer' = NoAnswer

\* Treeish::try_from(glob) for a compiled glob
TryFromGlob ==
    \E g \in Globs :
        LET p == glob_partitioned(g)
        IN  /\ via = "none"
            /\ expression' = g
            /\ via' = "glob"
            /\ partitioned' = Ok(p)
            /\ outcome' = try_from_partitioned(p)
            /\ split' = None
            /\ calls' = <<>>
            /\ requested' = WalkBehavior_default
            /\ answer' = NoAnswer

\* Treeish::from(path)
FromPath ==
    \E p \in Text :
        /\ via = "none"
        /\ expression' = p
        /\ via' = "path"
        /\ partitioned' = [tag |-> "None"]
        /\ outcome' = Ok(TreeishPath(p))
        /\ split' = None
        /\ calls' = <<>>
        /\ requested' = WalkBehavior_default
        /\ answer' = NoAnswer

\* Treeish::walk_with_behavior(behavior)
WalkWithBehavior ==
    /\ Built
    /\ Len(calls) < MaxCalls
    /\ \E b \in Behaviors :
           /\ requested' = b
           /\ calls' = Append(calls, walk_call(outcome.value, b))
    /\ UNCHANGED <<expression, via, partitioned, outcome, split, answer>>

\* Treeish::walk()
Walk ==
    /\ Built
    /\ Len(calls) < MaxCalls
    /\ requested' = WalkBehavior_default
    /\ calls' = Append(calls, walk_call(outcome.value, WalkBehavior_default))
    /\ UNCHANGED <<expression, via, partitioned, outcome, split, answer>>

\* Treeish::has_path()
HasPath ==
    /\ Built
    /\ answer' = [op |-> "has_path", value |-> has_path(outcome.value)]
    /\ UNCHANGED <<expression, via, partitioned, outcome, split, calls, requested>>

\* Treeish::has_glob()
HasGlob ==
    /\ Built
    /\ answer' = [op |-> "has_glob", value |-> has_glob(outcome.value)]
    /\ UNCHANGED <<expression, via, partitioned, outcome, split, calls, requested>>

\* the value (or the error) goes out of scope; another may be constructed
Drop ==
    /\ via # "none"
    /\ expression' = <<>>
    /\ via' = "none"
    /\ partitioned' = [tag |-> "None"]
    /\ outcome' = [tag |-> "None"]
    /\ split' = None
    /\ calls' = <<>>
    /\ requested' = WalkBehavior_default
    /\ answer' = NoAnswer

Next ==
    \/ New
    \/ TryFromGlob
    \/ FromPath
    \/ WalkWithBehavior
    \/ Walk
    \/ HasPath
    \/ HasGlob
    \/ Drop

Spec == Init /\ [][Next]_vars

\* ------------------------------------------------------------- the claims

\* a separator starts at position i of e
SepAt(e, i) == i < Len(e) /\ e[i] = ":" /\ e[i + 1] = ":"

HasSep(e) == \E i \in 1..Len(e) : SepAt(e, i)

FirstSep(e) == CHOOSE i \in 1..Len(e) : SepAt(e, i) /\ \A j \in 1..(i - 1) : ~SepAt(e, j)

Prefix(e) == SubSeq(e, 1, FirstSep(e) - 1)

Suffix(e) == SubSeq(e, FirstSep(e) + 2, Len(e))

Rooted(g) == g # <<>> /\ Head(g) = "/"

ViaValidator == via \in {"new", "glob"}

IsGlobIn(p) == p.tag = "Ok" /\ p.value.some /\ p.value.value.variant = "GlobIn"

\* C1: no constructor that passes through the rule validator (Treeish::new,
\* TryFrom<Glob>) produces a GlobIn whose glob is rooted; a partition
\* GlobIn(path, glob) with a rooted glob fails with the rule violation.
C1_NoRootedGlobIn ==
    ViaValidator =>
        /\ (outcome.tag = "Ok" /\ outcome.value.variant = "GlobIn")
               => ~Rooted(outcome.value.glob)
        /\ (IsGlobIn(partitioned) /\ Rooted(partitioned.value.value.glob))
               => outcome = Err("Rule")

C1_Witness ==
    /\ via = "new"
    /\ IsGlobIn(partitioned)
    /\ Rooted(partitioned.value.value.glob)
    /\ outcome = Err("Rule")

\* C2: a Treeish built by Treeish::new never wraps an empty path or an empty
\* pattern: Path is not "", Glob is not the empty pattern, GlobIn holds
\* neither an empty tree nor an empty pattern.
C2_NoEmptyComponent ==
    (via = "new" /\ outcome.tag = "Ok") =>
        /\ outcome.value.variant = "Path" => outcome.value.path # <<>>
        /\ outcome.value.variant = "Glob" => outcome.value.glob # <<>>
        /\ outcome.value.variant = "GlobIn" =>
               outcome.value.tree # <<>> /\ outcome.value.glob # <<>>

\* C3: an expression holding the separator is split at its first occurrence
\* only, the suffix running to the end of the text; when the suffix compiles
\* the result is GlobIn(prefix, suffix) for a non-empty prefix (unless the
\* suffix is rooted, which is the rule violation) and Glob(suffix) for an
\* empty prefix.
C3_FirstSeparatorSplit ==
    (via = "new" /\ HasSep(expression)) =>
        /\ split = Some(<<Prefix(expression), Suffix(expression)>>)
        /\ Glob_new(Suffix(expression)).ok =>
               outcome =
                   IF Prefix(expression) # <<>>
                   THEN IF Rooted(Suffix(expression))
                        THEN Err("Rule")
                        ELSE Ok(TreeishGlobIn(Prefix(expression), Suffix(expression)))
                   ELSE Ok(TreeishGlob(Suffix(expression)))

C3_Witness ==
    /\ via = "new"
    /\ expression = <<"a", ":", ":", "?">>
    /\ split = Some(<<(<<"a">>), (<<"?">>)>>)
    /\ outcome = Ok(TreeishGlobIn(<<"a">>, <<"?">>))

\* C4: when the text after the first separator does not compile as a
\* pattern, Treeish::new fails with the pattern-compilation cause: no
\* Treeish is produced, and the failure is neither a parse failure nor a
\* rule failure.
C4_BadSuffixFails ==
    (via = "new" /\ HasSep(expression) /\ ~Glob_new(Suffix(expression)).ok) =>
        outcome = Err("Glob")

C4_Witness ==
    /\ via = "new"
    /\ HasSep(expression)
    /\ Prefix(expression) # <<>>
    /\ ~Glob_new(Suffix(expression)).ok
    /\ outcome = Err("Glob")

\* C5: an expression without a separator that does not compile as a pattern
\* is a literal path: Treeish::new succeeds with Path(expression), or with
\* the empty sentinel when the expression is empty.
C5_LiteralFallback ==
    (via = "new" /\ ~HasSep(expression) /\ ~Glob_new(expression).ok) =>
        outcome = IF expression # <<>> THEN Ok(TreeishPath(expression)) ELSE Ok(empty)

C5_Witness ==
    /\ via = "new"
    /\ ~HasSep(expression)
    /\ ~Glob_new(expression).ok
    /\ outcome = Ok(TreeishPath(expression))

\* C6: has_path answers TRUE exactly for Path and GlobIn, has_glob answers
\* TRUE exactly for Glob and GlobIn.
C6_Predicates ==
    outcome.tag = "Ok" =>
        /\ answer.op = "has_path" =>
               (answer.value <=> outcome.value.variant \in {"Path", "GlobIn"})
        /\ answer.op = "has_glob" =>
               (answer.value <=> outcome.value.variant \in {"Glob", "GlobIn"})

\* C7: a walk makes exactly one call into the traversal engine, chosen by
\* variant: Path(p) walks the empty pattern rooted at p, Glob(g) walks g
\* rooted at ".", GlobIn walks glob rooted at tree; the behavior asked for is
\* the behavior passed, walk() asks for the default, and the Treeish is left
\* as it was.
C7_WalkDispatch ==
    [][(via # "none" /\ via' # "none" /\ calls' # calls) =>
          /\ Len(calls') = Len(calls) + 1
          /\ SubSeq(calls', 1, Len(calls)) = calls
          /\ outcome' = outcome
          /\ LET c == calls'[Len(calls')]
                 t == outcome.value
             IN  /\ c.behavior = requested'
                 /\ t.variant = "Path" => c.glob = <<>> /\ c.root = t.path
                 /\ t.variant = "Glob" => c.glob = t.glob /\ c.root = <<".">>
                 /\ t.variant = "GlobIn" => c.glob = t.glob /\ c.root = t.tree
      ]_vars

C7_Witness ==
    /\ outcome.tag = "Ok"
    /\ outcome.value.variant = "GlobIn"
    /\ requested = "custom"
    /\ Len(calls) = 1
    /\ calls[1] = [glob |-> outcome.value.glob, root |-> outcome.value.tree,
                   behavior |-> "custom"]

\* C8: Treeish::new("") succeeds with the empty sentinel, which is not a
\* Path and is never walked as one: no walk of it asks the engine for the
\* always-match pattern under a root.
C8_SentinelNotWalkedAsPath ==
    (via = "new" /\ expression = <<>>) =>
        /\ outcome.tag = "Ok"
        /\ outcome.value.variant # "Path"
        /\ \A i \in 1..Len(calls) : calls[i].glob # <<>>

\* C9: a non-empty expression without a separator that compiles is
\* recombined from the engine's partition by presence: both parts give
\* GlobIn (unless the remainder is rooted, the rule violation), the
\* remainder alone gives Glob, the prefix alone gives Path; both parts are
\* never empty, and Treeish::new does not panic.
C9_PartitionRecombined ==
    (via = "new" /\ expression # <<>> /\ ~HasSep(expression)
                 /\ Glob_new(expression).ok) =>
        LET path == partition(expression)[1]
            glob == partition(expression)[2]
        IN  /\ outcome.tag # "Panic"
            /\ path # <<>> \/ glob # <<>>
            /\ (path # <<>> /\ glob # <<>>) =>
                   outcome = IF Rooted(glob) THEN Err("Rule")
                             ELSE Ok(TreeishGlobIn(path, glob))
            /\ (path = <<>> /\ glob # <<>>) => outcome = Ok(TreeishGlob(glob))
            /\ (path # <<>> /\ glob = <<>>) => outcome = Ok(TreeishPath(path))

C9_Witness ==
    /\ via = "new"
    /\ expression = <<"a", "/", "?", "a">>
    /\ outcome = Ok(TreeishGlobIn(<<"a">>, <<"?", "a">>))

\* C10: Treeish::new never fails with the parse cause; a failure is a
\* pattern-compilation failure, only for an expression holding the
\* separator, or the rule failure.
C10_NoParseError ==
    via = "new" =>
        /\ partitioned # Err("Parse")
        /\ outcome.tag \in {"Ok", "Err"}
        /\ outcome.tag = "Err" => outcome.kind \in {"Glob", "Rule"}
        /\ outcome = Err("Glob") => HasSep(expression)
        /\ (outcome.tag = "Err" /\ ~HasSep(expression)) => outcome.kind = "Rule"

C10_Witness ==
    /\ via = "new"
    /\ ~HasSep(expression)
    /\ \E i \in 1..Len(expression) : expression[i] = ":"
    /\ Len(expression) >= 3
    /\ partitioned = Ok(Some(PartPath(expression)))

=============================================================================
